---- MODULE Spec2Model ----
(***************************************************************************)
(* Model of the pyvtt voice-to-text daemon (src/voice_to_text_tray.py,     *)
(* src/notify.py): the socket listener thread that dispatches start / stop *)
(* / toggle to TrayApp, the ffmpeg recorder subprocess TrayApp owns, the   *)
(* WhisperWorker threads it launches, and the GUI thread's set_preset.     *)
(*                                                                         *)
(* Threads and what one step of each is:                                   *)
(*   - SocketListener.run: one accepted connection, from recv to the end   *)
(*     of the dispatched TrayApp method.  The only blocking call inside a  *)
(*     method, Popen.wait() in stop_recording_if_possible, splits that     *)
(*     method in two steps (terminate, then everything after wait()).      *)
(*   - WhisperWorker.run: three steps, cut where the run reads the global  *)
(*     CURRENT_PRESET or waits for an external program: building           *)
(*     whisper_cmd; the whisper subprocess returning (then reading the     *)
(*     transcript and building the payload); the HTTP POST returning (then *)
(*     clipboard, notification and the finished signal).                   *)
(*   - the GUI thread: set_preset, triggered from the tray menu.           *)
(* The code keeps no session state variable: State derives the spec's      *)
(* Idle / Recording / Processing from recording_process and the running    *)
(* workers.                                                                *)
(***************************************************************************)
EXTENDS Integers, Sequences, FiniteSets, Bags, TLC

\* Model bounds.
NumPresets == 2      \* len(CONFIGURATION["presets"])
MaxWorkers == 2      \* WhisperWorker threads running at the same time
MaxRecorders == 2    \* ffmpeg processes alive at the same time

None == 0
Presets == 1..NumPresets
Pids == 1..MaxRecorders

VARIABLES
    CURRENT_PRESET,     \* the global: index of the preset it refers to
    recording_process,  \* TrayApp.recording_process: None or the Popen's pid
    recorders,          \* pids of the ffmpeg processes that are alive
    recPreset,          \* history: CURRENT_PRESET when the recording started
    workers,            \* bag of the WhisperWorker threads that are running
    listener,           \* SocketListener thread: "accept" | "wait" | "dead"
    out                 \* what the last step did (its observable effects)

vars == <<CURRENT_PRESET, recording_process, recorders, recPreset, workers,
          listener, out>>

\* The (title, message) pairs the code hands to notify().
NoteStarted == "Aufnahme gestartet!"
NoteStopped == "Aufnahme beendet, verarbeite..."
NoteWhisper == "Ein Fehler mit 'Whisper' ist aufgetreten!"
NoteRead == "Ein Fehler beim Lesen der Whisper-Ausgabe ist aufgetreten!"
NoteOllama == "Ein Fehler bei der Kommunikation mit 'Ollama' ist aufgetreten!"
NoteClipboard == "Ein Fehler beim Kopieren des Ergebnisses ist aufgetreten!"
NoteDone == "Transkription abgeschlossen!"
NoteGeneric == "Ein Fehler ist aufgetreten!"

ErrorNotes == {NoteWhisper, NoteRead, NoteOllama, NoteClipboard, NoteGeneric}

\* The session state of the spec, read off the code's variables: a recorder
\* handle is held (Recording), else a pipeline is running (Processing), else
\* Idle.
State ==
    IF recording_process # None THEN "Recording"
    ELSE IF workers # EmptyBag THEN "Processing"
    ELSE "Idle"

\* A step with no observable effect.
Quiet ==
    [op |-> "-", pre |-> "-", spawned |-> FALSE, terminated |-> FALSE,
     launched |-> FALSE, notes |-> <<>>, raised |-> FALSE, stage |-> "-",
     unexpected |-> FALSE, calls |-> <<>>, emitted |-> FALSE, arg |-> 0]

\* The effects of a command dispatched by the listener in session state pre.
CmdOut(op, spawned, terminated, launched, notes, raised) ==
    [Quiet EXCEPT !.op = op, !.pre = State, !.spawned = spawned,
                  !.terminated = terminated, !.launched = launched,
                  !.notes = notes, !.raised = raised]

\* notify(title, message): hands the pair to notify-send.  A non-zero exit
\* of notify-send is caught inside; any other exception (notify-send cannot
\* be executed) escapes to the caller: returns = FALSE.
notify(message, returns) == [notes |-> <<message>>, raised |-> ~returns]

Init ==
    /\ CURRENT_PRESET = 1
    /\ recording_process = None
    /\ recorders = {}
    /\ recPreset = None
    /\ workers = EmptyBag
    /\ listener = "accept"
    /\ out = Quiet

\* The lowest pid no live recorder has.
FreePid == CHOOSE p \in Pids \ recorders : \A q \in Pids \ recorders : p <= q

\* The indices the tray menu's actions pass to set_preset (enumerate), and
\* the indices a caller of set_preset can pass.
MenuIndices == 0..(NumPresets - 1)
ApiIndices == (0 - NumPresets - 1)..NumPresets

\* CONFIGURATION["presets"][index], a Python list subscript: the preset at
\* index, counted from the end if index is negative; None: IndexError.
Subscript(index) ==
    IF index >= 0 /\ index < NumPresets THEN index + 1
    ELSE IF index < 0 /\ index >= 0 - NumPresets THEN NumPresets + index + 1
    ELSE None

\* TrayApp.set_preset(index).  The subscript in the print raises IndexError
\* before the assignment if index is out of the list's range.
set_preset(index) ==
    /\ CURRENT_PRESET' =
            IF Subscript(index) = None THEN CURRENT_PRESET ELSE Subscript(index)
    /\ out' = [Quiet EXCEPT !.op = "set_preset", !.arg = index,
                            !.raised = (Subscript(index) = None)]
    /\ UNCHANGED <<recording_process, recorders, recPreset, workers, listener>>

\* A command that finds nothing to do: the guard of start_recording or of
\* stop_recording_if_possible is false, or the payload is no command.
ignore(op) ==
    /\ out' = CmdOut(op, FALSE, FALSE, FALSE, <<>>, FALSE)
    /\ UNCHANGED <<CURRENT_PRESET, recording_process, recorders, recPreset,
                   workers, listener>>

\* The body of start_recording: Popen(ffmpeg ...), then the notification.
spawn_recorder(op) ==
    \/ \* Popen raises (ffmpeg cannot be executed): the exception leaves
       \* SocketListener.run and ends the thread.
       /\ listener' = "dead"
       /\ out' = CmdOut(op, FALSE, FALSE, FALSE, <<>>, TRUE)
       /\ UNCHANGED <<CURRENT_PRESET, recording_process, recorders,
                      recPreset, workers>>
    \/ /\ Pids \ recorders # {}     \* the model's bound on live recorders
       /\ recorders' = recorders \cup {FreePid}
       /\ recording_process' = FreePid
       /\ recPreset' = CURRENT_PRESET
       /\ \E returns \in BOOLEAN :
            LET n == notify(NoteStarted, returns) IN
            /\ listener' = IF n.raised THEN "dead" ELSE "accept"
            /\ out' = CmdOut(op, TRUE, FALSE, FALSE, n.notes, n.raised)
       /\ UNCHANGED <<CURRENT_PRESET, workers>>

\* start_recording without its guard.
start_recording_unguarded(op) == spawn_recorder(op)

\* TrayApp.start_recording, reached by the command op.
start_recording(op) ==
    IF recording_process = None
    THEN spawn_recorder(op)
    ELSE ignore(op)

\* A WhisperWorker that has been started and has not yet read anything.
\* snap is history: the preset that was selected when its recording started.
NewWorker == [pc |-> "init", snap |-> recPreset, cmd |-> None, payload |-> None]

\* TrayApp.start_whisper_worker.
start_whisper_worker == workers' = workers (+) SetToBag({NewWorker})

\* The body of stop_recording_if_possible up to wait(): terminate().  The
\* first conjunct is the model's bound on running workers, not the code's.
terminate_recorder(op) ==
    /\ BagCardinality(workers) < MaxWorkers
    /\ listener' = "wait"
    /\ out' = CmdOut(op, FALSE, TRUE, FALSE, <<>>, FALSE)
    /\ UNCHANGED <<CURRENT_PRESET, recording_process, recorders, recPreset,
                   workers>>

\* stop_recording_if_possible with start_whisper_worker() outside the guard.
stop_recording_launch_unguarded(op) ==
    IF recording_process # None
    THEN terminate_recorder(op)
    ELSE /\ BagCardinality(workers) < MaxWorkers
         /\ start_whisper_worker
         /\ out' = CmdOut(op, FALSE, FALSE, TRUE, <<>>, FALSE)
         /\ UNCHANGED <<CURRENT_PRESET, recording_process, recorders,
                        recPreset, listener>>

\* TrayApp.stop_recording_if_possible up to wait(): the guard and terminate().
stop_recording_if_possible(op) ==
    IF recording_process # None
    THEN terminate_recorder(op)
    ELSE ignore(op)

\* toggle_recording without its branch: it always starts.
toggle_recording_always_start(op) == start_recording(op)

\* TrayApp.toggle_recording.
toggle_recording(op) ==
    IF recording_process # None
    THEN stop_recording_if_possible(op)
    ELSE start_recording(op)

\* TrayApp.stop_recording_if_possible from wait() on: wait() returns once
\* the recorder has exited.
stop_recording_after_wait ==
    /\ listener = "wait"
    /\ recording_process \notin recorders
    /\ recording_process' = None
    /\ recPreset' = None
    /\ \E returns \in BOOLEAN :
        LET n == notify(NoteStopped, returns) IN
        IF n.raised
        THEN /\ listener' = "dead"
             /\ out' = CmdOut("wait", FALSE, FALSE, FALSE, n.notes, TRUE)
             /\ UNCHANGED workers
        ELSE /\ listener' = "accept"
             /\ out' = CmdOut("wait", FALSE, FALSE, TRUE, n.notes, FALSE)
             /\ start_whisper_worker
    /\ UNCHANGED <<CURRENT_PRESET, recorders>>

\* A listener that hands each connection to a thread of its own: a command
\* is dispatched while an earlier one is still inside wait().
SocketListener_run_threaded(data) ==
    /\ listener \in {"accept", "wait"}
    /\ CASE data = "toggle" -> toggle_recording(data)
         [] data = "start" -> start_recording(data)
         [] data = "stop" -> stop_recording_if_possible(data)
         [] OTHER -> ignore(data)

\* SocketListener.run: one connection, data is what recv delivered.
SocketListener_run(data) ==
    /\ listener = "accept"
    /\ CASE data = "toggle" -> toggle_recording(data)
         [] data = "start" -> start_recording(data)
         [] data = "stop" -> stop_recording_if_possible(data)
         [] data = "undecodable" ->
                \* bytes.decode() raises UnicodeDecodeError.
                /\ listener' = "dead"
                /\ out' = CmdOut(data, FALSE, FALSE, FALSE, <<>>, TRUE)
                /\ UNCHANGED <<CURRENT_PRESET, recording_process, recorders,
                               recPreset, workers>>
         [] OTHER -> ignore(data)

Payloads == {"start", "stop", "toggle", "other", "undecodable"}

\* A recorder process exits: after terminate(), or by itself.
RecorderExits(p) ==
    /\ p \in recorders
    /\ recorders' = recorders \ {p}
    /\ out' = Quiet
    /\ UNCHANGED <<CURRENT_PRESET, recording_process, recPreset, workers,
                   listener>>

\* The bag of workers with thread w replaced by its next state w2.
Replace(w, w2) == (workers (-) SetToBag({w})) (+) SetToBag({w2})

\* WhisperWorker.run's catch-all handler: the generic notification, after
\* the notify() calls made before the exception.  If this notify() raises
\* too, the exception leaves run() and the thread ends: for the state
\* modelled here that is the same step as a return.
Unexpected(before) ==
    [notes |-> before \o notify(NoteGeneric, TRUE).notes, raised |-> FALSE]

\* A stage's own handler: notify(message) and return.  An exception raised
\* by that notify() is caught by the catch-all handler.
StageError(message, returns) ==
    LET n == notify(message, returns) IN
    IF n.raised THEN Unexpected(n.notes) ELSE n

\* The external calls of a run, in the order run() makes them.
Whisper == <<"whisper">>
WhisperRead == <<"whisper", "open">>
WhisperReadPost == <<"whisper", "open", "post">>
WhisperReadPostCopy == <<"whisper", "open", "post", "wl-copy">>

\* The effects of a run that ends: the external calls it made, the one that
\* failed (stage; "none": none did, "notify": the success notification),
\* whether the failure was an exception no stage handler catches, whether
\* finished was emitted, and the notify() calls h.notes.
RunOut(stage, unexpected, calls, emitted, h) ==
    [Quiet EXCEPT !.op = "run", !.stage = stage, !.unexpected = unexpected,
                  !.calls = calls, !.emitted = emitted,
                  !.notes = h.notes, !.raised = h.raised]

\* run() returns (or raises): thread w is no longer running.
Finish(w, o) ==
    /\ workers' = workers (-) SetToBag({w})
    /\ out' = o

\* WhisperWorker.run, building whisper_cmd: reads CURRENT_PRESET's
\* whisper_model and language (cmd: the preset they are taken from).
run_build_cmd(w) ==
    /\ w.pc = "init"
    /\ workers' = Replace(w, [w EXCEPT !.pc = "whisper", !.cmd = CURRENT_PRESET])
    /\ out' = Quiet
    /\ UNCHANGED <<CURRENT_PRESET, recording_process, recorders, recPreset,
                   listener>>

\* The ways a run ends, each the set of effects it can have (the notify()
\* calls in a handler return or raise).
\* The whisper handler without its return: run() goes on with the old
\* transcript file, to the clipboard and the success notification.
whisper_nonzero_no_return ==
    {RunOut("whisper", FALSE, WhisperReadPostCopy, TRUE,
            [notes |-> <<NoteWhisper, NoteDone>>, raised |-> FALSE])}

\* subprocess.run(whisper_cmd, check=True) raises CalledProcessError.
whisper_nonzero ==
    {RunOut("whisper", FALSE, Whisper, FALSE, StageError(NoteWhisper, r)) :
        r \in BOOLEAN}

\* subprocess.run(whisper_cmd) raises anything else (the binary is missing).
whisper_raises ==
    {RunOut("whisper", TRUE, Whisper, FALSE, Unexpected(<<>>))}

\* open() or read() of the transcript raises.
read_fails ==
    {RunOut("open", FALSE, WhisperRead, FALSE,
            StageError(NoteRead, r)) : r \in BOOLEAN}

\* requests.post raises (service unreachable), or response.json() does.
refine_raises ==
    {RunOut("post", TRUE, WhisperReadPost, FALSE, Unexpected(<<>>))}

\* The HTTPError handler without its return: run() goes on to wl-copy.
refine_http_error_no_return ==
    {RunOut("post", FALSE, WhisperReadPostCopy, TRUE,
            [notes |-> <<NoteOllama, NoteDone>>, raised |-> FALSE])}

\* raise_for_status() raises HTTPError: the response is not 2xx.
refine_http_error ==
    {RunOut("post", FALSE, WhisperReadPost, FALSE,
            StageError(NoteOllama, r)) : r \in BOOLEAN}

\* wl-copy was run and exited non-zero.
publish_nonzero ==
    {RunOut("wl-copy", FALSE, WhisperReadPostCopy, FALSE,
            StageError(NoteClipboard, r)) : r \in BOOLEAN}

\* subprocess.run(["wl-copy"]) raises anything else (wl-copy is missing).
publish_raises ==
    {RunOut("wl-copy", TRUE, WhisperReadPostCopy, FALSE,
            Unexpected(<<>>))}

\* All four stages succeeded: the success notification, then finished.emit.
\* If that notify() raises, the catch-all handler runs and nothing is emitted.
published ==
    {LET h == StageError(NoteDone, r) IN
     IF h.notes = <<NoteDone>>
     THEN RunOut("none", FALSE, WhisperReadPostCopy, TRUE, h)
     ELSE RunOut("notify", TRUE, WhisperReadPostCopy, FALSE, h) :
        r \in BOOLEAN}

\* WhisperWorker.run from the return of the whisper subprocess to the HTTP
\* POST: reading the transcript, then building the payload from
\* CURRENT_PRESET's ollama_model and ollama_prompt (payload: the preset they
\* are taken from).
run_transcribe(w) ==
    /\ w.pc = "whisper"
    /\ \/ \E o \in whisper_nonzero \cup whisper_raises \cup read_fails :
            Finish(w, o)
       \/ /\ workers' = Replace(w, [w EXCEPT !.pc = "post",
                                             !.payload = CURRENT_PRESET])
          /\ out' = Quiet
    /\ UNCHANGED <<CURRENT_PRESET, recording_process, recorders, recPreset,
                   listener>>

\* WhisperWorker.run from the return of requests.post to the end: status
\* check, formatting, wl-copy, the success notification and finished.
run_refine_publish(w) ==
    /\ w.pc = "post"
    /\ \E o \in refine_raises \cup refine_http_error \cup publish_nonzero
                \cup publish_raises \cup published :
            Finish(w, o)
    /\ UNCHANGED <<CURRENT_PRESET, recording_process, recorders, recPreset,
                   listener>>

Next ==
    \/ \E index \in MenuIndices : set_preset(index)
    \/ \E data \in Payloads : SocketListener_run(data)
    \/ stop_recording_after_wait
    \/ \E p \in recorders : RecorderExits(p)
    \/ \E w \in BagToSet(workers) : run_build_cmd(w)
    \/ \E w \in BagToSet(workers) : run_transcribe(w)
    \/ \E w \in BagToSet(workers) : run_refine_publish(w)

Spec == Init /\ [][Next]_vars

\* The daemon with set_preset open to any caller, not only the tray menu.
NextApi ==
    \/ Next
    \/ \E index \in ApiIndices \ MenuIndices : set_preset(index)

SpecApi == Init /\ [][NextApi]_vars

----------------------------------------------------------------------------
Range(q) == {q[i] : i \in 1..Len(q)}

\* The notification each handled stage failure is given.
StageNote(stage) ==
    CASE stage = "whisper" -> NoteWhisper
      [] stage = "open" -> NoteRead
      [] stage = "post" -> NoteOllama
      [] stage = "wl-copy" -> NoteClipboard
      [] OTHER -> NoteGeneric

\* C1: a start command received while the session is Recording or Processing
\* spawns no recorder and leaves the session state and the recorder handle
\* unchanged.
C1_StartWhileBusyIsNoOp ==
    [][(out'.op = "start" /\ State \in {"Recording", "Processing"})
         => /\ ~out'.spawned
            /\ State' = State
            /\ UNCHANGED <<recording_process, recorders>>]_vars

\* C2: at most one pipeline instance (WhisperWorker run) is running at any
\* time.
C2_OnePipeline == BagCardinality(workers) <= 1

\* C3: every preset field a running pipeline has read is that of the preset
\* that was selected when its recording started, whatever preset switches
\* happened since.
C3_PipelineUsesSnapshot ==
    \A w \in BagToSet(workers) :
        /\ w.cmd # None => w.cmd = w.snap
        /\ w.payload # None => w.payload = w.snap

\* C4: at most one recorder subprocess is alive at any time; while no
\* recorder handle is held (the only case in which start spawns one) no
\* recorder is alive.
C4_OneRecorder ==
    /\ Cardinality(recorders) <= 1
    /\ recording_process = None => recorders = {}

\* C4 witness: a recorder was spawned while the pipeline of an earlier
\* recording was still running, and it is the only one alive.
C4_Witness ==
    /\ out.spawned /\ out.pre = "Processing"
    /\ recorders = {recording_process}

\* C5: a toggle received while the session is Processing is dropped: no
\* recorder spawned, no pipeline launched, no notification, session state
\* unchanged.
C5_ToggleWhileProcessingDropped ==
    [][(out'.op = "toggle" /\ State = "Processing")
         => /\ ~out'.spawned /\ ~out'.launched /\ out'.notes = <<>>
            /\ State' = State
            /\ UNCHANGED <<recording_process, recorders, workers>>]_vars

\* C6: a stop received while the session is Idle or Processing is a no-op:
\* no process spawned or terminated, no pipeline launched, no notification,
\* state and recorder handle unchanged.
C6_StopNotRecordingIsNoOp ==
    [][(out'.op = "stop" /\ State \in {"Idle", "Processing"})
         => /\ ~out'.spawned /\ ~out'.terminated /\ ~out'.launched
            /\ out'.notes = <<>> /\ ~out'.raised
            /\ State' = State
            /\ UNCHANGED <<recording_process, recorders, workers, listener>>]_vars

\* C6 witness: a stop was dispatched while a pipeline was running and no
\* recorder handle was held.
C6_Witness ==
    /\ out.op = "stop" /\ out.pre = "Processing"
    /\ workers # EmptyBag /\ recording_process = None

\* C7: when a pipeline run ends (in success or in any failure) while the
\* session is Processing, the session is Idle afterwards.
C7_CompletionReturnsToIdle ==
    [][(out'.op = "run" /\ State = "Processing") => State' = "Idle"]_vars

C9_WhisperFailureAborts ==
    (out.op = "run" /\ out.stage = "whisper" /\ ~out.unexpected) =>
        /\ out.calls = Whisper
        /\ NoteDone \notin Range(out.notes)
        /\ ~out.emitted
        /\ NoteWhisper \in Range(out.notes)

\* C9 witness: a run has ended with the whisper binary exiting non-zero.
C9_Witness ==
    out.op = "run" /\ out.stage = "whisper" /\ ~out.unexpected

\* C10: every failed run makes exactly one notification, and it is the one
\* of the stage that failed; a successful run makes no error notification.
C10_OneStageNotificationPerFailure ==
    out.op = "run" =>
        IF out.stage = "none"
        THEN Range(out.notes) \cap ErrorNotes = {}
        ELSE out.notes = <<StageNote(out.stage)>> /\ out.notes # <<NoteGeneric>>

\* C11: when Popen fails in start_recording the failure is notified, the
\* session stays Idle with no recorder handle, and the listener goes on to
\* accept the next connection.
C11_SpawnFailureHandled ==
    (out.op \in {"start", "toggle"} /\ out.raised /\ ~out.spawned) =>
        /\ out.notes # <<>>
        /\ recording_process = None /\ State = out.pre
        /\ listener = "accept"

\* C12: a payload that is none of start, stop and toggle (undecodable bytes
\* included) changes neither the session nor the recorder, makes no
\* notification, and leaves the listener accepting the next connection.
C12_UnknownPayloadIgnored ==
    [][out'.op \in {"other", "undecodable"}
         => /\ UNCHANGED <<CURRENT_PRESET, recording_process, recorders,
                           workers>>
            /\ out'.notes = <<>>
            /\ listener' = "accept"]_vars

\* C13: a run whose four stages all succeeded makes exactly the success
\* notification and emits finished; a run with a failed stage makes neither.
C13_SuccessNotifiedAndEmittedOnce ==
    out.op = "run" =>
        IF out.calls = WhisperReadPostCopy /\ out.stage \in {"none", "notify"}
        THEN out.notes = <<NoteDone>> /\ out.emitted
        ELSE NoteDone \notin Range(out.notes) /\ ~out.emitted

\* C14: the first preset is selected initially and a preset of the list is
\* selected in every state; set_preset(index) selects the preset at index
\* if 0 <= index < len(presets), and otherwise raises and leaves the
\* selection unchanged.
C14_SetPresetRangeChecked ==
    /\ CURRENT_PRESET = 1
    /\ [][/\ CURRENT_PRESET' \in Presets
          /\ out'.op = "set_preset" =>
                IF out'.arg \in MenuIndices
                THEN CURRENT_PRESET' = out'.arg + 1 /\ ~out'.raised
                ELSE CURRENT_PRESET' = CURRENT_PRESET /\ out'.raised]_vars

\* C15: a toggle dispatched in session state Idle is a step of start, and
\* one dispatched in Recording is a step of stop_recording_if_possible, with
\* the same successor state and effects; and the other way round.
C15_ToggleIsStartOrStop ==
    [][/\ (out'.op = "toggle" /\ State = "Idle") => start_recording("toggle")
       /\ (out'.op = "toggle" /\ State = "Recording")
            => stop_recording_if_possible("toggle")
       /\ (out'.op = "start" /\ State = "Idle") => toggle_recording("start")
       /\ (out'.op = "stop" /\ State = "Recording")
            => toggle_recording("stop")]_vars

\* C15 witness: a toggle dispatched while Recording has terminated the
\* recorder.
C15_Witness ==
    out.op = "toggle" /\ out.pre = "Recording" /\ out.terminated

\* C16: a connection is read only when no command's transition is in
\* progress, and a transition in progress (a stop inside wait()) is left
\* only by finishing it.
C16_CommandsSerialized ==
    [][/\ out'.op \in Payloads => listener = "accept"
       /\ listener = "wait" => (listener' = "wait" \/ out'.op = "wait")]_vars

\* C16 witness: a command was dispatched after an earlier stop had finished
\* and launched a pipeline that is still running.
C16_Witness ==
    /\ out.op \in {"start", "stop", "toggle"}
    /\ out.pre = "Processing" /\ workers # EmptyBag

\* C17: a stop that terminated the recorder stays inside wait() until the
\* recorder has exited, no connection is read meanwhile, and on return the
\* handle is released, the "stopped" notification made and exactly one
\* pipeline launched.
C17_StopOrder ==
    [][/\ out'.terminated => listener' = "wait"
       /\ out'.op \in Payloads => listener = "accept"
       /\ out'.op = "wait"
            => /\ recording_process \notin recorders
               /\ recording_process' = None
               /\ out'.notes = <<NoteStopped>>
               /\ out'.launched
               /\ BagCardinality(workers') = BagCardinality(workers) + 1]_vars

\* C18: a stop returns to accept right after launching the pipeline, and
\* while a pipeline is running the listener is still there to accept and
\* dispatch commands.
C18_ListenerServesDuringPipeline ==
    /\ (out.op = "wait" /\ out.launched) => listener = "accept"
    /\ workers # EmptyBag => listener # "dead"

\* C19: no recorder is alive (writing the audio file) while a pipeline's
\* whisper subprocess is running (reading the audio file).
C19_NoRecorderDuringTranscribe ==
    (\E w \in BagToSet(workers) : w.pc = "whisper") => recorders = {}

\* C20: the preset a run took its whisper model and language from is the
\* preset it took its ollama model and prompt from.
C20_OnePresetPerRun ==
    \A w \in BagToSet(workers) :
        (w.cmd # None /\ w.payload # None) => w.cmd = w.payload

====
